---- MODULE Spec2Model ----
(***************************************************************************)
(* NRAU-Baltic log cross-checker: the command line form (check.py) and the *)
(* graphical form (gui.py) of the scoring engine.                          *)
(*                                                                         *)
(* Conventions of the model                                                *)
(*  - a Python str is a sequence of one-character strings, so that int()   *)
(*    and s[0] are computed and not assumed; a character outside ASCII is  *)
(*    written as its code point, "U+0664";                                 *)
(*  - a timestamp (cabrillo minute resolution) is the number of minutes    *)
(*    since 2022-01-09 00:00;                                              *)
(*  - a call that can raise returns a record whose field exc names the     *)
(*    exception ("none" when it returned), ret the returned grade;         *)
(*  - log.write(...) calls are returned as the sequence of annotations     *)
(*    written, each [grade, reason].                                       *)
(***************************************************************************)
EXTENDS Integers, Sequences, FiniteSets, TLC

VARIABLES
  impl,             \* "check" (check.py) or "gui" (gui.py)
  contest,          \* callsign -> contacts, as read_logs returned it
  listdir,          \* the callsigns in the order os.listdir gave their files
  shadow_stations,  \* check.py: the module global; gui.py: validate_all's local
  NUM_MISTAKES,     \* check.py's global counter
  results,          \* the aggregator's results dict
  ubn,              \* check.py: callsign -> the lines written to its .ubn file;
                    \* newline is FALSE for text not yet ended by "\n"
  valid,            \* <<callsign, position>> -> the contact's valid attribute
  cur,              \* gui.py: the locals result, earned_mults_80m, earned_mults_40m
  pc, ci, qi,       \* position of the aggregator: phase, participant, contact
  runs,             \* aggregator calls made so far
  folders,          \* the logs on disk: <<./CW/, ./PH/>>, each as read_logs parses it
  kept,             \* what the finished aggregator calls left to their caller
  uncaught,         \* the exception that ended the process ("none" while it runs)
  inp, out          \* arguments and result of a pure function under check

vars == <<impl, contest, listdir, shadow_stations, NUM_MISTAKES, results, ubn, valid, cur,
          pc, ci, qi, runs, folders, kept, uncaught, inp, out>>

aggVars == <<impl, contest, listdir, shadow_stations, NUM_MISTAKES, results, ubn, valid, cur,
             pc, ci, qi, runs, folders, kept, uncaught>>

----------------------------------------------------------------------------
(* Bounds of the model *)

\* longest exchange (number of fields) enumerated for the Exchange Grader
MaxFields == 4
\* longest log enumerated for the QSO Locator
MaxLog == 3
\* most contacts in the counterpart's log enumerated for the orchestrator
MaxDup == 2

----------------------------------------------------------------------------
(* Program constants *)

MAX_MINUTE_DELTA == 5
\* "2022-01-09 06:30:00" and "2022-01-09 09:00:00" in minutes after midnight
PH_CONTEST_START == 390
CW_CONTEST_START == 540
\* the literal 10 of the shadow-station test
SHADOW_MIN_QSOS == 10

----------------------------------------------------------------------------
(* Python values *)

Digits == {"0", "1", "2", "3", "4", "5", "6", "7", "8", "9"}
\* the characters int() reads as decimal digits (Unicode 14 category Nd), in
\* runs of ten from the digit zero to the digit nine of each script
DecimalDigitRuns == <<
    "0", "1", "2", "3", "4", "5", "6", "7", "8", "9",
    "U+0660", "U+0661", "U+0662", "U+0663", "U+0664", "U+0665", "U+0666", "U+0667", "U+0668", "U+0669",
    "U+06F0", "U+06F1", "U+06F2", "U+06F3", "U+06F4", "U+06F5", "U+06F6", "U+06F7", "U+06F8", "U+06F9",
    "U+07C0", "U+07C1", "U+07C2", "U+07C3", "U+07C4", "U+07C5", "U+07C6", "U+07C7", "U+07C8", "U+07C9",
    "U+0966", "U+0967", "U+0968", "U+0969", "U+096A", "U+096B", "U+096C", "U+096D", "U+096E", "U+096F",
    "U+09E6", "U+09E7", "U+09E8", "U+09E9", "U+09EA", "U+09EB", "U+09EC", "U+09ED", "U+09EE", "U+09EF",
    "U+0A66", "U+0A67", "U+0A68", "U+0A69", "U+0A6A", "U+0A6B", "U+0A6C", "U+0A6D", "U+0A6E", "U+0A6F",
    "U+0AE6", "U+0AE7", "U+0AE8", "U+0AE9", "U+0AEA", "U+0AEB", "U+0AEC", "U+0AED", "U+0AEE", "U+0AEF",
    "U+0B66", "U+0B67", "U+0B68", "U+0B69", "U+0B6A", "U+0B6B", "U+0B6C", "U+0B6D", "U+0B6E", "U+0B6F",
    "U+0BE6", "U+0BE7", "U+0BE8", "U+0BE9", "U+0BEA", "U+0BEB", "U+0BEC", "U+0BED", "U+0BEE", "U+0BEF",
    "U+0C66", "U+0C67", "U+0C68", "U+0C69", "U+0C6A", "U+0C6B", "U+0C6C", "U+0C6D", "U+0C6E", "U+0C6F",
    "U+0CE6", "U+0CE7", "U+0CE8", "U+0CE9", "U+0CEA", "U+0CEB", "U+0CEC", "U+0CED", "U+0CEE", "U+0CEF",
    "U+0D66", "U+0D67", "U+0D68", "U+0D69", "U+0D6A", "U+0D6B", "U+0D6C", "U+0D6D", "U+0D6E", "U+0D6F",
    "U+0DE6", "U+0DE7", "U+0DE8", "U+0DE9", "U+0DEA", "U+0DEB", "U+0DEC", "U+0DED", "U+0DEE", "U+0DEF",
    "U+0E50", "U+0E51", "U+0E52", "U+0E53", "U+0E54", "U+0E55", "U+0E56", "U+0E57", "U+0E58", "U+0E59",
    "U+0ED0", "U+0ED1", "U+0ED2", "U+0ED3", "U+0ED4", "U+0ED5", "U+0ED6", "U+0ED7", "U+0ED8", "U+0ED9",
    "U+0F20", "U+0F21", "U+0F22", "U+0F23", "U+0F24", "U+0F25", "U+0F26", "U+0F27", "U+0F28", "U+0F29",
    "U+1040", "U+1041", "U+1042", "U+1043", "U+1044", "U+1045", "U+1046", "U+1047", "U+1048", "U+1049",
    "U+1090", "U+1091", "U+1092", "U+1093", "U+1094", "U+1095", "U+1096", "U+1097", "U+1098", "U+1099",
    "U+17E0", "U+17E1", "U+17E2", "U+17E3", "U+17E4", "U+17E5", "U+17E6", "U+17E7", "U+17E8", "U+17E9",
    "U+1810", "U+1811", "U+1812", "U+1813", "U+1814", "U+1815", "U+1816", "U+1817", "U+1818", "U+1819",
    "U+1946", "U+1947", "U+1948", "U+1949", "U+194A", "U+194B", "U+194C", "U+194D", "U+194E", "U+194F",
    "U+19D0", "U+19D1", "U+19D2", "U+19D3", "U+19D4", "U+19D5", "U+19D6", "U+19D7", "U+19D8", "U+19D9",
    "U+1A80", "U+1A81", "U+1A82", "U+1A83", "U+1A84", "U+1A85", "U+1A86", "U+1A87", "U+1A88", "U+1A89",
    "U+1A90", "U+1A91", "U+1A92", "U+1A93", "U+1A94", "U+1A95", "U+1A96", "U+1A97", "U+1A98", "U+1A99",
    "U+1B50", "U+1B51", "U+1B52", "U+1B53", "U+1B54", "U+1B55", "U+1B56", "U+1B57", "U+1B58", "U+1B59",
    "U+1BB0", "U+1BB1", "U+1BB2", "U+1BB3", "U+1BB4", "U+1BB5", "U+1BB6", "U+1BB7", "U+1BB8", "U+1BB9",
    "U+1C40", "U+1C41", "U+1C42", "U+1C43", "U+1C44", "U+1C45", "U+1C46", "U+1C47", "U+1C48", "U+1C49",
    "U+1C50", "U+1C51", "U+1C52", "U+1C53", "U+1C54", "U+1C55", "U+1C56", "U+1C57", "U+1C58", "U+1C59",
    "U+A620", "U+A621", "U+A622", "U+A623", "U+A624", "U+A625", "U+A626", "U+A627", "U+A628", "U+A629",
    "U+A8D0", "U+A8D1", "U+A8D2", "U+A8D3", "U+A8D4", "U+A8D5", "U+A8D6", "U+A8D7", "U+A8D8", "U+A8D9",
    "U+A900", "U+A901", "U+A902", "U+A903", "U+A904", "U+A905", "U+A906", "U+A907", "U+A908", "U+A909",
    "U+A9D0", "U+A9D1", "U+A9D2", "U+A9D3", "U+A9D4", "U+A9D5", "U+A9D6", "U+A9D7", "U+A9D8", "U+A9D9",
    "U+A9F0", "U+A9F1", "U+A9F2", "U+A9F3", "U+A9F4", "U+A9F5", "U+A9F6", "U+A9F7", "U+A9F8", "U+A9F9",
    "U+AA50", "U+AA51", "U+AA52", "U+AA53", "U+AA54", "U+AA55", "U+AA56", "U+AA57", "U+AA58", "U+AA59",
    "U+ABF0", "U+ABF1", "U+ABF2", "U+ABF3", "U+ABF4", "U+ABF5", "U+ABF6", "U+ABF7", "U+ABF8", "U+ABF9",
    "U+FF10", "U+FF11", "U+FF12", "U+FF13", "U+FF14", "U+FF15", "U+FF16", "U+FF17", "U+FF18", "U+FF19",
    "U+104A0", "U+104A1", "U+104A2", "U+104A3", "U+104A4", "U+104A5", "U+104A6", "U+104A7", "U+104A8", "U+104A9",
    "U+10D30", "U+10D31", "U+10D32", "U+10D33", "U+10D34", "U+10D35", "U+10D36", "U+10D37", "U+10D38", "U+10D39",
    "U+11066", "U+11067", "U+11068", "U+11069", "U+1106A", "U+1106B", "U+1106C", "U+1106D", "U+1106E", "U+1106F",
    "U+110F0", "U+110F1", "U+110F2", "U+110F3", "U+110F4", "U+110F5", "U+110F6", "U+110F7", "U+110F8", "U+110F9",
    "U+11136", "U+11137", "U+11138", "U+11139", "U+1113A", "U+1113B", "U+1113C", "U+1113D", "U+1113E", "U+1113F",
    "U+111D0", "U+111D1", "U+111D2", "U+111D3", "U+111D4", "U+111D5", "U+111D6", "U+111D7", "U+111D8", "U+111D9",
    "U+112F0", "U+112F1", "U+112F2", "U+112F3", "U+112F4", "U+112F5", "U+112F6", "U+112F7", "U+112F8", "U+112F9",
    "U+11450", "U+11451", "U+11452", "U+11453", "U+11454", "U+11455", "U+11456", "U+11457", "U+11458", "U+11459",
    "U+114D0", "U+114D1", "U+114D2", "U+114D3", "U+114D4", "U+114D5", "U+114D6", "U+114D7", "U+114D8", "U+114D9",
    "U+11650", "U+11651", "U+11652", "U+11653", "U+11654", "U+11655", "U+11656", "U+11657", "U+11658", "U+11659",
    "U+116C0", "U+116C1", "U+116C2", "U+116C3", "U+116C4", "U+116C5", "U+116C6", "U+116C7", "U+116C8", "U+116C9",
    "U+11730", "U+11731", "U+11732", "U+11733", "U+11734", "U+11735", "U+11736", "U+11737", "U+11738", "U+11739",
    "U+118E0", "U+118E1", "U+118E2", "U+118E3", "U+118E4", "U+118E5", "U+118E6", "U+118E7", "U+118E8", "U+118E9",
    "U+11950", "U+11951", "U+11952", "U+11953", "U+11954", "U+11955", "U+11956", "U+11957", "U+11958", "U+11959",
    "U+11C50", "U+11C51", "U+11C52", "U+11C53", "U+11C54", "U+11C55", "U+11C56", "U+11C57", "U+11C58", "U+11C59",
    "U+11D50", "U+11D51", "U+11D52", "U+11D53", "U+11D54", "U+11D55", "U+11D56", "U+11D57", "U+11D58", "U+11D59",
    "U+11DA0", "U+11DA1", "U+11DA2", "U+11DA3", "U+11DA4", "U+11DA5", "U+11DA6", "U+11DA7", "U+11DA8", "U+11DA9",
    "U+16A60", "U+16A61", "U+16A62", "U+16A63", "U+16A64", "U+16A65", "U+16A66", "U+16A67", "U+16A68", "U+16A69",
    "U+16AC0", "U+16AC1", "U+16AC2", "U+16AC3", "U+16AC4", "U+16AC5", "U+16AC6", "U+16AC7", "U+16AC8", "U+16AC9",
    "U+16B50", "U+16B51", "U+16B52", "U+16B53", "U+16B54", "U+16B55", "U+16B56", "U+16B57", "U+16B58", "U+16B59",
    "U+1D7CE", "U+1D7CF", "U+1D7D0", "U+1D7D1", "U+1D7D2", "U+1D7D3", "U+1D7D4", "U+1D7D5", "U+1D7D6", "U+1D7D7",
    "U+1D7D8", "U+1D7D9", "U+1D7DA", "U+1D7DB", "U+1D7DC", "U+1D7DD", "U+1D7DE", "U+1D7DF", "U+1D7E0", "U+1D7E1",
    "U+1D7E2", "U+1D7E3", "U+1D7E4", "U+1D7E5", "U+1D7E6", "U+1D7E7", "U+1D7E8", "U+1D7E9", "U+1D7EA", "U+1D7EB",
    "U+1D7EC", "U+1D7ED", "U+1D7EE", "U+1D7EF", "U+1D7F0", "U+1D7F1", "U+1D7F2", "U+1D7F3", "U+1D7F4", "U+1D7F5",
    "U+1D7F6", "U+1D7F7", "U+1D7F8", "U+1D7F9", "U+1D7FA", "U+1D7FB", "U+1D7FC", "U+1D7FD", "U+1D7FE", "U+1D7FF",
    "U+1E140", "U+1E141", "U+1E142", "U+1E143", "U+1E144", "U+1E145", "U+1E146", "U+1E147", "U+1E148", "U+1E149",
    "U+1E2F0", "U+1E2F1", "U+1E2F2", "U+1E2F3", "U+1E2F4", "U+1E2F5", "U+1E2F6", "U+1E2F7", "U+1E2F8", "U+1E2F9",
    "U+1E950", "U+1E951", "U+1E952", "U+1E953", "U+1E954", "U+1E955", "U+1E956", "U+1E957", "U+1E958", "U+1E959",
    "U+1FBF0", "U+1FBF1", "U+1FBF2", "U+1FBF3", "U+1FBF4", "U+1FBF5", "U+1FBF6", "U+1FBF7", "U+1FBF8", "U+1FBF9">>
DecimalDigits == {DecimalDigitRuns[i] : i \in DOMAIN DecimalDigitRuns}

DigitVal(c) ==
  ((CHOOSE i \in DOMAIN DecimalDigitRuns : DecimalDigitRuns[i] = c) - 1) % 10

\* the blanks int() strips from both ends of its argument
Blanks ==
  {"\t", "\n", "U+000B", "\f", "\r", " ", "U+0085", "U+00A0",
   "U+1680", "U+2000", "U+2001", "U+2002", "U+2003", "U+2004",
   "U+2005", "U+2006", "U+2007", "U+2008", "U+2009", "U+200A",
   "U+2028", "U+2029", "U+202F", "U+205F", "U+3000"}
RECURSIVE LStrip(_)
LStrip(s) == IF Len(s) > 0 /\ s[1] \in Blanks THEN LStrip(Tail(s)) ELSE s
RECURSIVE RStrip(_)
RStrip(s) ==
  IF Len(s) > 0 /\ s[Len(s)] \in Blanks THEN RStrip(SubSeq(s, 1, Len(s) - 1)) ELSE s
\* the argument of int() without blanks around it and without its sign
IntBody(s) ==
  LET t == RStrip(LStrip(s))
  IN IF Len(t) > 0 /\ t[1] \in {"+", "-"} THEN Tail(t) ELSE t

\* sys.get_int_max_str_digits(): most digits int() converts
INT_MAX_STR_DIGITS == 4300

\* int(s) returns (TRUE) or raises ValueError (FALSE): blanks around, one
\* optional sign, then at most INT_MAX_STR_DIGITS decimal digits with single
\* underscores between them
IsNumeric(s) ==
  LET b == IntBody(s)
  IN /\ Len(b) > 0
     /\ b[1] \in DecimalDigits /\ b[Len(b)] \in DecimalDigits
     /\ \A i \in 1..Len(b) : b[i] \in DecimalDigits \cup {"_"}
     /\ \A i \in 1..(Len(b) - 1) : ~(b[i] = "_" /\ b[i + 1] = "_")
     /\ Cardinality({i \in 1..Len(b) : b[i] # "_"}) <= INT_MAX_STR_DIGITS

\* the value of the digits of b, underscores skipped
RECURSIVE DigitsValue(_)
DigitsValue(b) ==
  IF Len(b) = 0 THEN 0
  ELSE IF b[Len(b)] = "_" THEN DigitsValue(SubSeq(b, 1, Len(b) - 1))
  ELSE 10 * DigitsValue(SubSeq(b, 1, Len(b) - 1)) + DigitVal(b[Len(b)])

\* int(s) where it returns
IntOf(s) ==
  LET t == RStrip(LStrip(s))
  IN IF Len(t) > 0 /\ t[1] = "-" THEN 0 - DigitsValue(IntBody(s))
     ELSE DigitsValue(IntBody(s))

\* None (a function falling off its end) and False: both falsy
NoneVal == [py |-> "None"]
FalseVal == [py |-> "False"]
Truthy(x) == x # NoneVal /\ x # FalseVal

Returned(g, why) == [ret |-> g, exc |-> "none", log |-> <<[grade |-> g, reason |-> why]>>]
Raised(e) == [ret |-> -1, exc |-> e, log |-> <<>>]

Abs(x) == IF x < 0 THEN -x ELSE x

----------------------------------------------------------------------------
(* External collaborators: the callsign resolver and the area table *)

\* cic.get_country_name: a country name, or KeyError for a callsign the
\* country file cannot decode
CountryFails == {"Q0Z"}
get_country_name(call) ==
  IF call = "DL9Y" THEN "Fed. Rep. of Germany" ELSE "Lithuania"

\* counties.json: country -> valid area codes
counties == [c \in {"Lithuania"} |-> {<<"K", "A">>, <<"V", "L">>}]

----------------------------------------------------------------------------
(* QSO Locator *)

RECURSIVE find_scan(_, _, _, _, _, _)
\* the for loop of find_qso from position i with `found` matches counted;
\* the position of the returned contact, 0 when the loop ends
find_scan(log, i, found, dx, band, occurence) ==
  IF i > Len(log) THEN 0
  ELSE IF log[i].dx_call = dx /\ log[i].freq[1] = band
       THEN IF found + 1 = occurence THEN i
            ELSE find_scan(log, i + 1, found + 1, dx, band, occurence)
       ELSE find_scan(log, i + 1, found, dx, band, occurence)

\* mutant: the occurrence argument is ignored, the first match returned
find_qso_first(cont, call, dx, band, occurence) ==
  IF call \notin DOMAIN cont THEN FalseVal
  ELSE LET i == find_scan(cont[call], 1, 0, dx, band, 1)
       IN IF i = 0 THEN NoneVal ELSE cont[call][i]

find_qso(cont, call, dx, band, occurence) ==
  IF call \notin DOMAIN cont THEN FalseVal
  ELSE LET i == find_scan(cont[call], 1, 0, dx, band, occurence)
       IN IF i = 0 THEN NoneVal ELSE cont[call][i]

----------------------------------------------------------------------------
(* Exchange Grader *)

\* mutant: the serial numbers compared as text
match_exch_serial_text(my_qso, other_qso) ==
  LET my_tx_exch == my_qso.de_exch
      my_rx_exch == my_qso.dx_exch
      other_tx_exch == other_qso.de_exch
  IN IF Len(my_tx_exch) # 3 THEN Returned(0, "Incomplete TX message")
     ELSE IF Len(my_rx_exch) # 3 THEN Returned(0, "Incomplete RX message")
     ELSE IF Len(other_tx_exch) < 1 THEN Raised("IndexError")
     ELSE IF my_rx_exch[1] # other_tx_exch[1] THEN Returned(1, "RX RST mismatch")
     ELSE IF Len(other_tx_exch) < 2 THEN Raised("IndexError")
     ELSE IF my_rx_exch[2] # other_tx_exch[2] THEN Returned(1, "RX number mismatch")
     ELSE IF Len(other_tx_exch) < 3 THEN Raised("IndexError")
     ELSE IF my_rx_exch[3] # other_tx_exch[3] THEN Returned(1, "RX county mismatch")
     ELSE [ret |-> 2, exc |-> "none", log |-> <<>>]

\* mutant: the area codes are not compared
match_exch_area_unchecked(my_qso, other_qso) ==
  LET my_tx_exch == my_qso.de_exch
      my_rx_exch == my_qso.dx_exch
      other_tx_exch == other_qso.de_exch
  IN IF Len(my_tx_exch) # 3 THEN Returned(0, "Incomplete TX message")
     ELSE IF Len(my_rx_exch) # 3 THEN Returned(0, "Incomplete RX message")
     ELSE IF Len(other_tx_exch) < 1 THEN Raised("IndexError")
     ELSE IF my_rx_exch[1] # other_tx_exch[1] THEN Returned(1, "RX RST mismatch")
     ELSE IF ~IsNumeric(my_rx_exch[2]) THEN Raised("ValueError")
     ELSE IF Len(other_tx_exch) < 2 THEN Raised("IndexError")
     ELSE IF ~IsNumeric(other_tx_exch[2]) THEN Raised("ValueError")
     ELSE IF IntOf(my_rx_exch[2]) # IntOf(other_tx_exch[2])
          THEN Returned(1, "RX number mismatch")
     ELSE [ret |-> 2, exc |-> "none", log |-> <<>>]

\* check.py: int() errors and short counterpart exchanges are not caught
match_exch(my_qso, other_qso) ==
  LET my_tx_exch == my_qso.de_exch
      my_rx_exch == my_qso.dx_exch
      other_tx_exch == other_qso.de_exch
  IN IF Len(my_tx_exch) # 3 THEN Returned(0, "Incomplete TX message")
     ELSE IF Len(my_rx_exch) # 3 THEN Returned(0, "Incomplete RX message")
     ELSE IF Len(other_tx_exch) < 1 THEN Raised("IndexError")
     ELSE IF my_rx_exch[1] # other_tx_exch[1] THEN Returned(1, "RX RST mismatch")
     ELSE IF ~IsNumeric(my_rx_exch[2]) THEN Raised("ValueError")
     ELSE IF Len(other_tx_exch) < 2 THEN Raised("IndexError")
     ELSE IF ~IsNumeric(other_tx_exch[2]) THEN Raised("ValueError")
     ELSE IF IntOf(my_rx_exch[2]) # IntOf(other_tx_exch[2])
          THEN Returned(1, "RX number mismatch")
     ELSE IF Len(other_tx_exch) < 3 THEN Raised("IndexError")
     ELSE IF my_rx_exch[3] # other_tx_exch[3] THEN Returned(1, "RX county mismatch")
     ELSE [ret |-> 2, exc |-> "none", log |-> <<>>]

\* gui.py: the same checks, a ValueError of int() is caught and graded 1
validate_exchange(my_qso, other_qso) ==
  LET my_tx_exch == my_qso.de_exch
      my_rx_exch == my_qso.dx_exch
      other_tx_exch == other_qso.de_exch
  IN IF Len(my_tx_exch) # 3 THEN Returned(0, "Incomplete TX message")
     ELSE IF Len(my_rx_exch) # 3 THEN Returned(0, "Incomplete RX message")
     ELSE IF Len(other_tx_exch) < 1 THEN Raised("IndexError")
     ELSE IF my_rx_exch[1] # other_tx_exch[1] THEN Returned(1, "RX RST mismatch")
     ELSE IF ~IsNumeric(my_rx_exch[2])
          THEN \* the except clause formats other_tx_exch[1]
               IF Len(other_tx_exch) < 2 THEN Raised("IndexError")
               ELSE Returned(1, "Invalid QSO number format")
     ELSE IF Len(other_tx_exch) < 2 THEN Raised("IndexError")
     ELSE IF ~IsNumeric(other_tx_exch[2]) THEN Returned(1, "Invalid QSO number format")
     ELSE IF IntOf(my_rx_exch[2]) # IntOf(other_tx_exch[2])
          THEN Returned(1, "RX number mismatch")
     ELSE IF Len(other_tx_exch) < 3 THEN Raised("IndexError")
     ELSE IF my_rx_exch[3] # other_tx_exch[3] THEN Returned(1, "RX county mismatch")
     ELSE [ret |-> 2, exc |-> "none", log |-> <<>>]

----------------------------------------------------------------------------
(* Band/Time rules *)

\* mutant: a difference of exactly the tolerance is a mismatch
match_time_exclusive(date1, date2) ==
  LET delta == date1 - date2
  IN IF Abs(60 * delta) >= MAX_MINUTE_DELTA * 60 THEN FALSE ELSE TRUE

match_time(date1, date2) ==
  LET delta == date1 - date2
  IN IF Abs(60 * delta) > MAX_MINUTE_DELTA * 60 THEN FALSE ELSE TRUE

match_time_window(date) ==
  LET ph_time == PH_CONTEST_START
      cw_time == CW_CONTEST_START
  IN (ph_time <= date /\ date < ph_time + 2 * 60)
     \/ (cw_time <= date /\ date < cw_time + 2 * 60)

----------------------------------------------------------------------------
(* Cross-Check Orchestrator *)

\* the frequency tests of match_nrau / validate_qso_gui
CwFreqOk(my_freq) ==
  (my_freq >= 3510 /\ my_freq <= 3560) \/ my_freq = 3500
  \/ (my_freq >= 7010 /\ my_freq <= 7060) \/ my_freq = 7000

PhFreqOk(my_freq) ==
  (my_freq >= 3600 /\ my_freq <= 3650) \/ (my_freq >= 3700 /\ my_freq <= 3775)
  \/ my_freq = 3500
  \/ (my_freq >= 7050 /\ my_freq <= 7100) \/ (my_freq >= 7130 /\ my_freq <= 7200)
  \/ my_freq = 7000

\* an annotation sequence followed by a later result of the same call
After(written, r) == [r EXCEPT !.log = written \o r.log]

\* the result r of an orchestrator call entered with `run`; calls lists the
\* run of this call followed by the runs of the calls it made
Entered(run, r) ==
  [calls |-> <<run>> \o (IF "calls" \in DOMAIN r THEN r.calls ELSE <<>>)] @@ r

\* mutant: the threshold test written with > for >=
shadow_count_exceeded(shadow, other_callsign, mo) ==
  shadow[other_callsign][mo \o "_count"].int > SHADOW_MIN_QSOS

\* shadow_stations[other_callsign][my_qso.mo + "_count"] >= 10
shadow_count_reached(shadow, other_callsign, mo) ==
  shadow[other_callsign][mo \o "_count"].int >= SHADOW_MIN_QSOS

\* mutant: the recursive call made without testing next_qso
next_qso_unchecked(next_qso) == TRUE

\* `if next_qso:` before the recursive call
next_qso_found(next_qso) == Truthy(next_qso)

RECURSIVE match_nrau(_, _, _, _, _)
\* check.py; shadow is the module-global shadow_stations
match_nrau(cont, shadow, my_qso, other_callsign, run) ==
  Entered(run,
  IF ~IsNumeric(my_qso.freq) THEN Raised("ValueError")
  ELSE
  LET my_freq == IntOf(my_qso.freq) IN
  IF other_callsign \notin DOMAIN cont THEN
    IF other_callsign \notin DOMAIN shadow
       \/ (my_qso.mo \o "_count") \notin DOMAIN shadow[other_callsign]
    THEN Raised("KeyError")
    ELSE IF "int" \notin DOMAIN shadow[other_callsign][my_qso.mo \o "_count"]
    THEN Raised("TypeError")
    ELSE IF shadow_count_reached(shadow, other_callsign, my_qso.mo) THEN
      IF Len(my_qso.dx_exch) < 3 THEN Raised("IndexError")
      ELSE IF my_qso.dx_call \in CountryFails THEN Raised("KeyError")
      ELSE IF get_country_name(my_qso.dx_call) \notin DOMAIN counties
           THEN Raised("KeyError")
      ELSE IF my_qso.dx_exch[3] \notin counties[get_country_name(my_qso.dx_call)]
           THEN Returned(0, "No county")
      ELSE Returned(1, "Found 10+ QSOs")
    ELSE Returned(0, "Log not received")
  ELSE
  LET other_qso == find_qso(cont, other_callsign, my_qso.de_call, my_qso.freq[1], run) IN
  IF ~Truthy(other_qso) THEN Returned(0, "QSO not found")
  ELSE IF my_qso.mo = "CW" /\ ~CwFreqOk(my_freq)
       THEN Returned(0, "CW QSO frequency out of contest band")
  ELSE IF my_qso.mo = "PH" /\ ~PhFreqOk(my_freq)
       THEN Returned(0, "PH QSO frequency out of contest band")
  ELSE IF ~match_time_window(my_qso.date)
       THEN Returned(0, "QSO logged outside contest time")
  ELSE IF ~match_time(my_qso.date, other_qso.date) THEN
    LET next_qso == find_qso(cont, other_callsign, my_qso.de_call,
                             my_qso.freq[1], run + 1)
    IN IF next_qso_found(next_qso) THEN
         LET next == match_nrau(cont, shadow, my_qso, other_callsign, run + 1)
         IN IF next.exc # "none" THEN next
            ELSE IF next.ret > 0 THEN next
            ELSE [calls |-> next.calls]
                   @@ After(next.log, match_exch(my_qso, other_qso))
       ELSE Returned(0, "Time differs")
  ELSE match_exch(my_qso, other_qso))

GuiReturned(g, why, m) ==
  [ret |-> g, exc |-> "none",
   log |-> IF why = "" THEN <<>> ELSE <<[grade |-> g, reason |-> why]>>,
   matched |-> m]
GuiRaised(e) == [ret |-> -1, exc |-> e, log |-> <<>>, matched |-> NoneVal]

RECURSIVE validate_qso_gui(_, _, _, _, _)
\* gui.py; returns (points, error_message, matched_qso)
validate_qso_gui(cont, shadow, my_qso, other_callsign, run) ==
  Entered(run,
  IF ~IsNumeric(my_qso.freq) THEN GuiRaised("ValueError")
  ELSE
  LET my_freq == IntOf(my_qso.freq) IN
  IF other_callsign \notin DOMAIN cont THEN
    IF other_callsign \in DOMAIN shadow
       /\ (my_qso.mo \o "_count") \in DOMAIN shadow[other_callsign]
       /\ "int" \notin DOMAIN shadow[other_callsign][my_qso.mo \o "_count"]
    THEN GuiRaised("TypeError")
    ELSE
    IF other_callsign \in DOMAIN shadow
       /\ (IF (my_qso.mo \o "_count") \in DOMAIN shadow[other_callsign]
           THEN shadow[other_callsign][my_qso.mo \o "_count"].int ELSE 0)
            >= SHADOW_MIN_QSOS
    THEN IF my_qso.dx_call \in CountryFails
         THEN GuiReturned(0, "Log not received", NoneVal)
         ELSE LET country == get_country_name(my_qso.dx_call) IN
              IF country \in DOMAIN counties
              THEN IF Len(my_qso.dx_exch) < 3
                   THEN GuiReturned(0, "Log not received", NoneVal)
                   ELSE IF my_qso.dx_exch[3] \notin counties[country]
                        THEN GuiReturned(0, "No county", NoneVal)
                        ELSE GuiReturned(1, "Found 10+ QSOs", NoneVal)
              ELSE GuiReturned(1, "Found 10+ QSOs", NoneVal)
    ELSE GuiReturned(0, "Log not received", NoneVal)
  ELSE
  LET other_qso == find_qso(cont, other_callsign, my_qso.de_call, my_qso.freq[1], run) IN
  IF ~Truthy(other_qso) THEN GuiReturned(0, "QSO not found", NoneVal)
  ELSE IF my_qso.mo = "CW" /\ ~CwFreqOk(my_freq)
       THEN GuiReturned(0, "CW QSO frequency out of contest band", NoneVal)
  ELSE IF my_qso.mo = "PH" /\ ~PhFreqOk(my_freq)
       THEN GuiReturned(0, "PH QSO frequency out of contest band", NoneVal)
  ELSE IF ~match_time_window(my_qso.date)
       THEN GuiReturned(0, "QSO logged outside contest time", NoneVal)
  ELSE IF ~match_time(my_qso.date, other_qso.date) THEN
    LET next_qso == find_qso(cont, other_callsign, my_qso.de_call,
                             my_qso.freq[1], run + 1)
    IN IF next_qso_found(next_qso)
       THEN validate_qso_gui(cont, shadow, my_qso, other_callsign, run + 1)
       ELSE GuiReturned(0, "Time differs", NoneVal)
  ELSE LET r == validate_exchange(my_qso, other_qso)
       IN IF r.exc # "none" THEN GuiRaised(r.exc)
          ELSE [ret |-> r.ret, exc |-> "none", log |-> r.log, matched |-> other_qso])

----------------------------------------------------------------------------
(* Shadow-Station Index *)

\* d[k] = v of a dict
Put(d, k, v) == [x \in DOMAIN d \cup {k} |-> IF x = k THEN v ELSE d[x]]

\* the body of the inner loop of loop_all's first pass and of
\* build_shadow_stations, for one contact. The dict of a station holds two
\* keys per mode, the claimant list under mo and the count under
\* mo + "_count"; a value is [list |-> ...] or [int |-> ...]. The result is
\* the index as the statements left it and the exception that ended them.
shadow_add(shadow, cont, qso) ==
  IF qso.dx_call \in DOMAIN cont THEN [shadow |-> shadow, exc |-> "none"]
  ELSE
  LET dx == qso.dx_call
      cnt == qso.mo \o "_count"
      s1 == IF dx \in DOMAIN shadow THEN shadow ELSE Put(shadow, dx, << >>)
      s2 == IF cnt \in DOMAIN s1[dx] THEN s1
            ELSE Put(s1, dx, Put(s1[dx], cnt, [int |-> 0]))
      s3 == IF qso.mo \in DOMAIN s2[dx] THEN s2
            ELSE Put(s2, dx, Put(s2[dx], qso.mo, [list |-> <<>>]))
  IN \* shadow_stations[dx][mo].append(de_call) on an int
     IF "list" \notin DOMAIN s3[dx][qso.mo]
     THEN [shadow |-> s3, exc |-> "AttributeError"]
     ELSE
     LET s4 == Put(s3, dx, Put(s3[dx], qso.mo,
                               [list |-> Append(s3[dx][qso.mo].list, qso.de_call)]))
     IN \* shadow_stations[dx][mo + "_count"] += 1 on a list
        IF "int" \notin DOMAIN s4[dx][cnt]
        THEN [shadow |-> s4, exc |-> "TypeError"]
        ELSE [shadow |-> Put(s4, dx, Put(s4[dx], cnt, [int |-> s4[dx][cnt].int + 1])),
              exc |-> "none"]

\* the shadow-station pass over the contacts of one log, from position i
RECURSIVE shadow_log(_, _, _, _)
shadow_log(shadow, cont, qsos, i) ==
  IF i > Len(qsos) THEN [shadow |-> shadow, exc |-> "none"]
  ELSE LET r == shadow_add(shadow, cont, qsos[i])
       IN IF r.exc # "none" THEN r ELSE shadow_log(r.shadow, cont, qsos, i + 1)

\* a dict iterates in insertion order: read_logs inserts in the order of
\* os.listdir, which is any order of the files
Orders(S) ==
  {o \in [1..Cardinality(S) -> S] : \A i, j \in DOMAIN o : i # j => o[i] # o[j]}
KeysOf(cont) == SelectSeq(listdir, LAMBDA c : c \in DOMAIN cont)

RECURSIVE shadow_pass(_, _, _)
\* the whole first pass, over the participants from position k of the keys
shadow_pass(shadow, cont, k) ==
  IF k > Len(KeysOf(cont)) THEN [shadow |-> shadow, exc |-> "none"]
  ELSE LET r == shadow_log(shadow, cont, cont[KeysOf(cont)[k]], 1)
       IN IF r.exc # "none" THEN r ELSE shadow_pass(r.shadow, cont, k + 1)

\* gui.py: a fresh dict on every call; the dict returned and the exception
\* that left the function
build_shadow_stations(cont) == shadow_pass(<< >>, cont, 1)

----------------------------------------------------------------------------
(* Inputs enumerated for the pure functions *)

Modes == {"CW", "PH"}

Qso(mo, freq, date, de, dx, tx, rx) ==
  [mo |-> mo, freq |-> freq, date |-> date, de_call |-> de, dx_call |-> dx,
   de_exch |-> tx, dx_exch |-> rx]

KA == <<"K", "A">>
VL == <<"V", "L">>
ZZ == <<"Z", "Z">>
R599 == <<"5", "9", "9">>
R59 == <<"5", "9">>
N14 == <<"1", "4">>
N014 == <<"0", "1", "4">>
NP14 == <<"+", "1", "4">>
N15 == <<"1", "5">>
NA == <<"A">>
F7000 == <<"7", "0", "0", "0">>
F3555 == <<"3", "5", "5", "5">>
F7120 == <<"7", "1", "2", "0">>
F14000 == <<"1", "4", "0", "0", "0">>

\* exchanges of 0..MaxFields fields: the prefixes of report, serial, area
\* followed by surplus fields
Surplus(n) == [i \in 1..n |-> <<"X">>]
FullExch ==
  {<<r, n, a>> : r \in {R599, R59}, n \in {N14, N014, NP14, N15, NA}, a \in {KA, VL}}
Exchs == {SubSeq(e \o Surplus(MaxFields), 1, k) : e \in FullExch, k \in 0..MaxFields}
OwnTx == {SubSeq(<<R599, N14, KA>> \o Surplus(MaxFields), 1, k) : k \in 0..MaxFields}

ExchInput(tx, rx, otx) ==
  [fn |-> "exch",
   my |-> Qso("CW", F7000, 600, "LY1A", "LY2B", tx, rx),
   other |-> Qso("CW", F7000, 600, "LY2B", "LY1A", otx, tx)]

\* logs of 0..MaxLog contacts of LY2B; contact i is logged at minute 600 + i
FindKinds == {"LY1A", "LY3F"} \X {F7000, F3555}
FindLogs ==
  UNION {{[i \in 1..n |-> Qso("CW", k[i][2], 600 + i, "LY2B", k[i][1],
                                <<R599, N14, KA>>, <<R599, N14, KA>>)] :
            k \in [1..n -> FindKinds]} : n \in 0..MaxLog}
FindInputs ==
  {[fn |-> "find", cont |-> [k \in {"LY2B"} |-> l], call |-> c, dx |-> "LY1A",
    band |-> b, occurence |-> o] :
     l \in FindLogs, c \in {"LY2B", "LY3F"}, b \in {"7", "3"}, o \in 0..(MaxLog + 1)}

\* the claimed contact of LY1A
NrauTx == {<<R599, <<"1">>, KA>>, <<R599, <<"1">>>>}
NrauRx == {<<R599, N14, KA>>, <<R599, N15, KA>>, <<R599, N14, ZZ>>, <<R599, N14>>}
NrauMy(dxs) ==
  {Qso(mo, f, d, "LY1A", dx, tx, rx) :
     mo \in Modes, f \in {F7000, F3555, F7120}, d \in {400, 520, 600},
     dx \in dxs, tx \in NrauTx, rx \in NrauRx}

\* the contacts of LY2B's log: with LY1A on the claimed band, 5 or 6 minutes
\* away, and one contact with another station
NrauOther(my) ==
  {Qso(my.mo, my.freq, my.date + d, "LY2B", "LY1A", tx, <<R599, <<"1">>, KA>>) :
     d \in {5, 6}, tx \in {<<R599, N14, KA>>, <<R599, N14, VL>>, <<R599, N14>>}}
  \cup {Qso(my.mo, my.freq, my.date, "LY2B", "LY3F", <<R599, N14, KA>>, <<R599, N14, KA>>)}

SeqsUpTo(S, n) == UNION {[1..k -> S] : k \in 0..n}

\* LY3F's log: n contacts with the station dx in mode mo
Filler(n, mo, dx) ==
  [i \in 1..n |-> Qso(mo, F7000, 600, "LY3F", dx, <<R599, <<"1">>, KA>>, <<R599, N14, KA>>)]

Shadows == {"LY9X", "DL9Y", "Q0Z"}
OtherMode(mo) == IF mo = "CW" THEN "PH" ELSE "CW"

\* the counterpart LY2B submitted a log
NrauLogged(my, l) ==
  [fn |-> "nrau", my |-> my,
   cont |-> [k \in {"LY1A", "LY2B"} |-> IF k = "LY1A" THEN <<my>> ELSE l]]

\* the counterpart submitted no log: LY3F claims it 8, 9 or 10 times more,
\* in the mode of the claimed contact or in the other mode
NrauShadow(my, n, same) ==
  [fn |-> "nrau", my |-> my,
   cont |-> [k \in {"LY1A", "LY3F"} |->
               IF k = "LY1A" THEN <<my>>
               ELSE Filler(n, IF same THEN my.mo ELSE OtherMode(my.mo), my.dx_call)]]

----------------------------------------------------------------------------
(* Specifications of the pure functions: Init draws the arguments, one     *)
(* action per function applies it                                          *)

Idle ==
  /\ impl = "none" /\ contest = << >> /\ shadow_stations = << >>
  /\ NUM_MISTAKES = 0 /\ results = << >> /\ ubn = << >> /\ valid = << >>
  /\ cur = NoneVal /\ pc = "pure" /\ ci = 0 /\ qi = 0 /\ runs = 0
  /\ folders = << >> /\ kept = << >> /\ uncaught = "none"

NotCalled == out = NoneVal
Result(name, value) == [fn |-> name, res |-> value]

InitExch ==
  /\ Idle /\ NotCalled /\ listdir = << >>
  /\ \E tx \in OwnTx, rx \in Exchs, otx \in Exchs : inp = ExchInput(tx, rx, otx)
call_match_exch ==
  /\ NotCalled
  /\ out' = Result("match_exch", match_exch(inp.my, inp.other))
  /\ UNCHANGED <<aggVars, inp>>
call_validate_exchange ==
  /\ NotCalled
  /\ out' = Result("validate_exchange", validate_exchange(inp.my, inp.other))
  /\ UNCHANGED <<aggVars, inp>>
NextExch == call_match_exch \/ call_validate_exchange
SpecExch == InitExch /\ [][NextExch]_vars

InitFind == Idle /\ inp \in FindInputs /\ NotCalled /\ listdir = << >>
call_find_qso ==
  /\ NotCalled
  /\ out' = Result("find_qso",
                   find_qso(inp.cont, inp.call, inp.dx, inp.band, inp.occurence))
  /\ UNCHANGED <<aggVars, inp>>
NextFind == call_find_qso
SpecFind == InitFind /\ [][NextFind]_vars

InitNrau ==
  /\ Idle /\ NotCalled
  /\ \/ \E my \in NrauMy({"LY2B"}) : \E l \in SeqsUpTo(NrauOther(my), MaxDup) :
          inp = NrauLogged(my, l)
     \/ \E my \in NrauMy(Shadows), n \in {8, 9, 10}, same \in BOOLEAN :
          inp = NrauShadow(my, n, same)
  /\ listdir \in Orders(DOMAIN inp.cont)
call_match_nrau ==
  /\ NotCalled
  /\ out' = Result("match_nrau",
                   match_nrau(inp.cont, build_shadow_stations(inp.cont).shadow, inp.my,
                              inp.my.dx_call, 1))
  /\ UNCHANGED <<aggVars, inp>>
call_validate_qso_gui ==
  /\ NotCalled
  /\ out' = Result("validate_qso_gui",
                   validate_qso_gui(inp.cont, build_shadow_stations(inp.cont).shadow, inp.my,
                                    inp.my.dx_call, 1))
  /\ UNCHANGED <<aggVars, inp>>
NextNrau == call_match_nrau \/ call_validate_qso_gui
SpecNrau == InitNrau /\ [][NextNrau]_vars

----------------------------------------------------------------------------
(* Score Aggregator: main() of check.py calls loop_all for the CW folder   *)
(* and then for the PH folder; _run_validation of gui.py calls             *)
(* validate_all for the CW contest and then for the PH contest             *)

\* callsigns enumerated that hold a "/": filepath + call + UBN_EXT then names
\* a file in a directory that does not exist and open() raises
\* FileNotFoundError
PortableCalls == {"LY1A/P"}

\* longest log of the claimant LY1A enumerated for the aggregator
MaxLen == 2
\* the two aggregator calls of main() / _run_validation
AGGREGATOR_CALLS == 2

\* contacts of LY1A: with LY2B on 40 m, with the shadow station LY9X on 40 m
AggMine ==
  {Qso("CW", F7000, 600, "LY1A", "LY2B", <<R599, <<"1">>, KA>>, <<R599, N14, KA>>),
   Qso("CW", F7000, 600, "LY1A", "LY9X", <<R599, <<"2">>, KA>>, <<R599, N14, KA>>)}
\* contacts of LY2B with LY1A on 40 m: 20 minutes away sending KA, 2 minutes
\* away sending VL, 2 minutes away sending KA
AggOther ==
  {Qso("CW", F7000, 620, "LY2B", "LY1A", <<R599, N14, KA>>, <<R599, <<"1">>, KA>>),
   Qso("CW", F7000, 602, "LY2B", "LY1A", <<R599, N14, VL>>, <<R599, <<"1">>, KA>>),
   Qso("CW", F7000, 602, "LY2B", "LY1A", <<R599, N14, KA>>, <<R599, <<"1">>, KA>>)}
\* contacts of LY1A with a station dx that submitted no log: on 40 m, and
\* with LY9X also on 80 m and on 14000 kHz
AggShadow(dx) ==
  {Qso("CW", F7000, 600, "LY1A", dx, <<R599, <<"2">>, KA>>, <<R599, N14, KA>>)}
  \cup (IF dx = "LY9X"
        THEN {Qso("CW", F3555, 600, "LY1A", dx, <<R599, <<"3">>, KA>>, <<R599, N14, KA>>),
              Qso("CW", F14000, 600, "LY1A", dx, <<R599, <<"4">>, KA>>, <<R599, N14, KA>>)}
        ELSE {})
\* defective contacts of LY2B with LY1A: a serial that is no numeral, a
\* transmitted exchange of 2 fields
AggDefect ==
  {Qso("CW", F7000, 602, "LY2B", "LY1A", <<R599, NA, KA>>, <<R599, <<"1">>, KA>>),
   Qso("CW", F7000, 602, "LY2B", "LY1A", <<R599, N14>>, <<R599, <<"1">>, KA>>)}

\* a folder as read_logs returns it: the logs of LY1A and LY2B
LoggedContests ==
  {[k \in {"LY1A", "LY2B"} |-> IF k = "LY1A" THEN a ELSE b] :
     a \in SeqsUpTo(AggMine, MaxLen), b \in SeqsUpTo(AggOther, MaxDup)}
\* the log of LY1A and a log of LY3F with 9 contacts with a station that
\* submitted no log
ShadowContests ==
  UNION {{[k \in {"LY1A", "LY3F"} |-> IF k = "LY1A" THEN a ELSE Filler(9, "CW", dx)] :
            a \in SeqsUpTo(AggMine \cup AggShadow(dx), MaxLen)} : dx \in Shadows}
\* the logs of LY1A and LY2B, the only contact of LY2B being defective
DefectContests ==
  {[k \in {"LY1A", "LY2B"} |-> IF k = "LY1A" THEN a ELSE <<b>>] :
     a \in SeqsUpTo({Qso("CW", F7000, 600, "LY1A", "LY2B",
                         <<R599, <<"1">>, KA>>, <<R599, N14, KA>>)}, MaxLen),
     b \in AggDefect}
\* the logs of LY1A and of a station whose country has no area set (DL9Y) or
\* does not resolve (Q0Z); LY1A copied the report 599 where 59 was sent
ForeignContests ==
  {[k \in {"LY1A", dx} |->
      IF k = "LY1A"
      THEN <<Qso("CW", F7000, 600, "LY1A", dx, <<R599, <<"1">>, KA>>, <<R599, N14, KA>>)>>
      ELSE <<Qso("CW", F7000, 601, dx, "LY1A", <<R59, N14, KA>>, <<R599, <<"1">>, KA>>)>>] :
     dx \in {"DL9Y", "Q0Z"}}
\* a contact of LY1A with LY9X in mode mo
AggMode(mo) ==
  Qso(mo, F7000, 600, "LY1A", "LY9X", <<R599, <<"2">>, KA>>, <<R599, N14, KA>>)
\* the log of LY1A alone: two contacts with LY9X, one in the mode CW and one
\* in a mode spelled CW_count, in either order
ModeContests ==
  {[k \in {"LY1A"} |-> a] :
     a \in {<<AggMode("CW"), AggMode("CW_count")>>,
            <<AggMode("CW_count"), AggMode("CW")>>}}
\* the logs of LY2B and of the portable station LY1A/P, one contact each
PortableContests ==
  {[k \in {"LY2B", "LY1A/P"} |->
      IF k = "LY2B"
      THEN <<Qso("CW", F7000, 600, "LY2B", "LY1A/P", <<R599, <<"1">>, KA>>, <<R599, N14, KA>>)>>
      ELSE <<Qso("CW", F7000, 601, "LY1A/P", "LY2B", <<R599, N14, KA>>, <<R599, <<"1">>, KA>>)>>]}
Contests == LoggedContests \cup ShadowContests \cup DefectContests \cup ForeignContests
              \cup ModeContests \cup PortableContests

\* the folder ./CW/ of the runs in which ./PH/ holds another Contest
FirstFolder ==
  [k \in {"LY1A", "LY3F"} |->
     IF k = "LY1A"
     THEN <<Qso("CW", F7000, 600, "LY1A", "LY2B", <<R599, <<"1">>, KA>>, <<R599, N14, KA>>)>>
     ELSE Filler(9, "CW", "LY9X")]
\* the two folders on disk: the same Contest twice, or FirstFolder and any
\* Contest
Folders ==
  {<<c, c>> : c \in Contests} \cup {<<FirstFolder, c>> : c \in Contests}

\* the next contact at or after position <<c, q>> when the participants are
\* visited in the order keys
RECURSIVE NextContactIn(_, _, _, _)
NextContactIn(keys, cont, c, q) ==
  IF c > Len(keys) THEN <<c, 1>>
  ELSE IF q > Len(cont[keys[c]]) THEN NextContactIn(keys, cont, c + 1, 1)
  ELSE <<c, q>>
NextContact(cont, c, q) == NextContactIn(KeysOf(cont), cont, c, q)

CurCall == KeysOf(contest)[ci]
CurQso == contest[CurCall][qi]

Init ==
  /\ impl \in {"check", "gui"}
  /\ contest = << >> /\ shadow_stations = << >> /\ NUM_MISTAKES = 0
  /\ results = << >> /\ ubn = << >> /\ valid = << >> /\ cur = NoneVal
  /\ pc = "idle" /\ ci = 0 /\ qi = 0 /\ runs = 0
  /\ folders \in Folders /\ kept = << >> /\ uncaught = "none" /\ listdir = << >>
  /\ inp = NoneVal /\ out = NoneVal

\* read_logs(folder): the parsed logs of the folder, inserted in the order
\* of os.listdir; every contact valid
read_logs ==
  /\ pc = "idle" /\ runs < AGGREGATOR_CALLS
  /\ LET c == folders[runs + 1] IN \E order \in Orders(DOMAIN c) :
       /\ contest' = c /\ listdir' = order
       /\ valid' = [k \in UNION {{<<call, i>> : i \in 1..Len(c[call])} : call \in DOMAIN c}
                      |-> TRUE]
       /\ LET first == NextContactIn(order, c, 1, 1)
          IN IF impl = "check"
             THEN IF first[1] > Len(order)
                  THEN pc' = "judge" /\ ci' = 1 /\ qi' = 0
                  ELSE pc' = "shadow" /\ ci' = first[1] /\ qi' = first[2]
             ELSE pc' = "build" /\ ci' = 1 /\ qi' = 0
  /\ results' = << >> /\ ubn' = << >> /\ cur' = NoneVal
  /\ runs' = runs + 1
  /\ UNCHANGED <<impl, uncaught, folders, kept, shadow_stations, NUM_MISTAKES, inp, out>>

\* loop_all, first pass: one contact added to the global shadow_stations;
\* an AttributeError or TypeError of the statements leaves loop_all uncaught,
\* the global index keeping what they had stored
loop_all_shadow ==
  /\ impl = "check" /\ pc = "shadow"
  /\ LET r == shadow_add(shadow_stations, contest, CurQso)
         next == NextContact(contest, ci, qi + 1)
     IN /\ shadow_stations' = r.shadow
        /\ IF r.exc # "none"
           THEN pc' = "crashed" /\ uncaught' = r.exc /\ UNCHANGED <<ci, qi>>
           ELSE /\ uncaught' = uncaught
                /\ IF next[1] > Len(KeysOf(contest))
                   THEN pc' = "judge" /\ ci' = 1 /\ qi' = 0
                   ELSE pc' = pc /\ ci' = next[1] /\ qi' = next[2]
  /\ UNCHANGED <<impl, listdir, folders, kept, contest, NUM_MISTAKES, results, ubn, valid, cur, runs, inp, out>>

\* loop_all, second pass: results[call] = dict(...) and the .ubn file opened;
\* qsos[0] raises IndexError on an empty log, de_exch[2] on a short exchange;
\* open() raises FileNotFoundError after results[call] is stored
loop_all_open ==
  /\ impl = "check" /\ pc = "judge" /\ ci <= Len(KeysOf(contest)) /\ qi = 0
  /\ LET qsos == contest[CurCall] IN
     IF Len(qsos) = 0 \/ Len(qsos[1].de_exch) < 3
     THEN pc' = "crashed" /\ uncaught' = "IndexError" /\ UNCHANGED <<results, ubn, qi>>
     ELSE /\ results' = [k \in DOMAIN results \cup {CurCall} |->
                           IF k = CurCall
                           THEN [call |-> CurCall, mode |-> qsos[1].mo,
                                 qso_count_80m |-> 0, qso_count_40m |-> 0,
                                 points_80m |-> 0, points_40m |-> 0,
                                 mults_80m |-> <<>>, mults_40m |-> <<>>,
                                 score |-> 0, county |-> qsos[1].de_exch[3]]
                           ELSE results[k]]
          /\ IF CurCall \in PortableCalls
             THEN pc' = "crashed" /\ uncaught' = "FileNotFoundError"
                  /\ UNCHANGED <<ubn, qi>>
             ELSE /\ ubn' = [k \in DOMAIN ubn \cup {CurCall} |->
                               IF k = CurCall THEN <<>> ELSE ubn[k]]
                  /\ qi' = 1 /\ pc' = pc /\ uncaught' = uncaught
  /\ UNCHANGED <<impl, listdir, folders, kept, contest, shadow_stations, NUM_MISTAKES, valid, cur, ci, runs,
                 inp, out>>

\* mutant: the membership test of the multiplier list left out
InSeq_never(x, sq) == FALSE

InSeq(x, sq) == \E i \in 1..Len(sq) : sq[i] = x

\* loop_all lines 274-285: whether the claimed area may be credited
loop_all_mult_ok(cont, qso, points) ==
  IF points # 1 THEN [exc |-> "none", ok |-> TRUE]
  ELSE IF qso.dx_call \in CountryFails THEN [exc |-> "KeyError", ok |-> FALSE]
  ELSE IF get_country_name(qso.dx_call) \notin DOMAIN counties
       THEN [exc |-> "KeyError", ok |-> FALSE]
  ELSE LET in_table == qso.dx_exch[3] \in counties[get_country_name(qso.dx_call)]
           other_qso == find_qso(cont, qso.dx_call, qso.de_call, qso.freq[1], 1)
       IN IF ~Truthy(other_qso) THEN [exc |-> "none", ok |-> in_table]
          ELSE IF Len(other_qso.de_exch) < 3 THEN [exc |-> "IndexError", ok |-> FALSE]
          ELSE [exc |-> "none",
                ok |-> in_table /\ other_qso.de_exch[3] = qso.dx_exch[3]]

\* loop_all lines 287-298: the tallies of one band
loop_all_tally(res, qso, points, mult_ok) ==
  LET county == qso.dx_exch[3] IN
  IF qso.freq[1] = "7"
  THEN [res EXCEPT !.qso_count_40m = @ + 1, !.points_40m = @ + points,
                   !.mults_40m = IF mult_ok /\ ~InSeq(county, @)
                                 THEN Append(@, county) ELSE @]
  ELSE IF qso.freq[1] = "3"
  THEN [res EXCEPT !.qso_count_80m = @ + 1, !.points_80m = @ + points,
                   !.mults_80m = IF mult_ok /\ ~InSeq(county, @)
                                 THEN Append(@, county) ELSE @]
  ELSE res

\* mutant: only grade 0 counted as a mistake
is_mistake_below_one(points) == points < 1

\* loop_all line 300: the grade is a mistake
is_mistake(points) == points < 2

\* loop_all, second pass: one contact judged, tallied and written
loop_all_judge ==
  /\ impl = "check" /\ pc = "judge" /\ ci <= Len(KeysOf(contest))
  /\ qi >= 1 /\ qi <= Len(contest[CurCall])
  /\ LET qso == CurQso
         r == match_nrau(contest, shadow_stations, qso, qso.dx_call, 1)
         points == r.ret
         m == loop_all_mult_ok(contest, qso, points)
         res == results[CurCall]
         tallied == loop_all_tally(res, qso, points, m.ok)
         credited == IF tallied.mults_40m # res.mults_40m
                        \/ tallied.mults_80m # res.mults_80m
                     THEN <<qso.dx_exch[3]>> ELSE <<>>
     IN IF r.exc # "none" \/ (points > 0 /\ m.exc # "none")
        THEN /\ pc' = "crashed" /\ uncaught' = (IF r.exc # "none" THEN r.exc ELSE m.exc)
             \* str(qso) and the annotations written before the raise stay
             /\ ubn' = [ubn EXCEPT ![CurCall] =
                          Append(@, [points |-> points, writes |-> r.log,
                                     mult |-> <<>>, newline |-> FALSE])]
             /\ UNCHANGED <<results, NUM_MISTAKES, valid, qi>>
        ELSE /\ results' = IF points > 0
                           THEN [results EXCEPT ![CurCall] = tallied] ELSE results
             /\ ubn' = [ubn EXCEPT ![CurCall] =
                          Append(@, [points |-> points,
                                     writes |-> IF points = 2
                                                THEN Append(r.log, [grade |-> 2, reason |-> ""])
                                                ELSE r.log,
                                     mult |-> IF points > 0 THEN credited ELSE <<>>,
                                     newline |-> TRUE])]
             /\ NUM_MISTAKES' = IF is_mistake(points) THEN NUM_MISTAKES + 1
                                ELSE NUM_MISTAKES
             /\ valid' = IF is_mistake(points)
                         THEN [valid EXCEPT ![<<CurCall, qi>>] = FALSE]
                         ELSE valid
             /\ qi' = qi + 1 /\ pc' = pc /\ uncaught' = uncaught
  /\ UNCHANGED <<impl, listdir, folders, kept, contest, shadow_stations, cur, ci, runs, inp, out>>

\* loop_all: log.close() and the next participant
loop_all_close ==
  /\ impl = "check" /\ pc = "judge" /\ ci <= Len(KeysOf(contest))
  /\ qi = Len(contest[CurCall]) + 1
  /\ ci' = ci + 1 /\ qi' = 0
  /\ UNCHANGED <<impl, listdir, uncaught, folders, kept, contest, shadow_stations, NUM_MISTAKES, results, ubn, valid,
                 cur, pc, runs, inp, out>>

\* loop_all: return results
loop_all_return ==
  /\ impl = "check" /\ pc = "judge" /\ ci > Len(KeysOf(contest))
  /\ pc' = "done"
  /\ UNCHANGED <<impl, listdir, uncaught, folders, kept, contest, shadow_stations, NUM_MISTAKES, results, ubn, valid,
                 cur, ci, qi, runs, inp, out>>

\* validate_all: shadow_stations = build_shadow_stations(contest); results = {}
\* an AttributeError or TypeError of build_shadow_stations leaves validate_all
\* uncaught before the local is assigned
validate_all_build ==
  /\ impl = "gui" /\ pc = "build"
  /\ LET r == build_shadow_stations(contest)
     IN IF r.exc # "none"
        THEN pc' = "crashed" /\ uncaught' = r.exc
             /\ UNCHANGED <<shadow_stations, ci, qi>>
        ELSE shadow_stations' = r.shadow /\ uncaught' = uncaught
             /\ pc' = "judge" /\ ci' = 1 /\ qi' = 0
  /\ UNCHANGED <<impl, listdir, folders, kept, contest, NUM_MISTAKES, results, ubn, valid, cur, runs, inp, out>>

\* validate_all: an empty log is skipped, else a ParticipantResult is created
validate_all_open ==
  /\ impl = "gui" /\ pc = "judge" /\ ci <= Len(KeysOf(contest)) /\ qi = 0
  /\ LET qsos == contest[CurCall] IN
     IF Len(qsos) = 0
     THEN ci' = ci + 1 /\ UNCHANGED <<cur, qi>>
     ELSE /\ cur' = [result |-> [callsign |-> CurCall, mode |-> qsos[1].mo,
                                 county |-> IF Len(qsos[1].de_exch) >= 3
                                            THEN qsos[1].de_exch[3] ELSE <<"?", "?">>,
                                 qso_validations |-> <<>>],
                     earned_mults_80m |-> <<>>, earned_mults_40m |-> <<>>]
          /\ qi' = 1 /\ ci' = ci
  /\ UNCHANGED <<impl, listdir, uncaught, folders, kept, contest, shadow_stations, NUM_MISTAKES, results, ubn, valid,
                 pc, runs, inp, out>>

\* validate_all lines 238-251: whether the claimed area may be credited
validate_all_mult_ok(qso, points, county, matched_qso) ==
  IF points # 1 THEN [exc |-> "none", ok |-> TRUE]
  ELSE LET by_table ==
             IF qso.dx_call \in CountryFails THEN FALSE
             ELSE LET country == get_country_name(qso.dx_call)
                  IN ~(country \in DOMAIN counties /\ county \notin counties[country])
       IN IF ~Truthy(matched_qso) THEN [exc |-> "none", ok |-> by_table]
          ELSE IF Len(matched_qso.de_exch) < 3 THEN [exc |-> "IndexError", ok |-> FALSE]
          ELSE [exc |-> "none",
                ok |-> by_table /\ matched_qso.de_exch[3] = qso.dx_exch[3]]

\* validate_all: one contact judged and its QSOValidation appended
validate_all_judge ==
  /\ impl = "gui" /\ pc = "judge" /\ ci <= Len(KeysOf(contest))
  /\ qi >= 1 /\ qi <= Len(contest[CurCall])
  /\ LET qso == CurQso
         r == validate_qso_gui(contest, shadow_stations, qso, qso.dx_call, 1)
         points == r.ret
         county == IF Len(qso.dx_exch) >= 3 THEN qso.dx_exch[3] ELSE <<>>
         m == validate_all_mult_ok(qso, points, county, r.matched)
         on40 == m.ok /\ county # <<>> /\ qso.freq[1] = "7"
                   /\ ~InSeq(county, cur.earned_mults_40m)
         on80 == m.ok /\ county # <<>> /\ ~(qso.freq[1] = "7"
                                            /\ ~InSeq(county, cur.earned_mults_40m))
                   /\ qso.freq[1] = "3" /\ ~InSeq(county, cur.earned_mults_80m)
         multiplier == IF points > 0 /\ (on40 \/ on80) THEN county ELSE <<>>
     IN IF r.exc # "none" \/ (points > 0 /\ m.exc # "none")
        THEN /\ pc' = "crashed" /\ uncaught' = (IF r.exc # "none" THEN r.exc ELSE m.exc)
             /\ UNCHANGED <<cur, qi>>
        ELSE /\ cur' = [result |-> [cur.result EXCEPT !.qso_validations =
                                      Append(@, [qso |-> qso, points |-> points,
                                                 error_message |-> r.log,
                                                 multiplier |-> multiplier])],
                        earned_mults_80m |-> IF points > 0 /\ on80
                                             THEN Append(cur.earned_mults_80m, county)
                                             ELSE cur.earned_mults_80m,
                        earned_mults_40m |-> IF points > 0 /\ on40
                                             THEN Append(cur.earned_mults_40m, county)
                                             ELSE cur.earned_mults_40m]
             /\ qi' = qi + 1 /\ pc' = pc /\ uncaught' = uncaught
  /\ UNCHANGED <<impl, listdir, folders, kept, contest, shadow_stations, NUM_MISTAKES, results, ubn, valid,
                 ci, runs, inp, out>>

\* validate_all: results[call] = result and the next participant
validate_all_close ==
  /\ impl = "gui" /\ pc = "judge" /\ ci <= Len(KeysOf(contest))
  /\ qi = Len(contest[CurCall]) + 1
  /\ results' = [k \in DOMAIN results \cup {CurCall} |->
                   IF k = CurCall THEN cur.result ELSE results[k]]
  /\ cur' = NoneVal
  /\ ci' = ci + 1 /\ qi' = 0
  /\ UNCHANGED <<impl, listdir, uncaught, folders, kept, contest, shadow_stations, NUM_MISTAKES, ubn, valid, pc, runs,
                 inp, out>>

\* validate_all: return results
validate_all_return ==
  /\ impl = "gui" /\ pc = "judge" /\ ci > Len(KeysOf(contest))
  /\ pc' = "done"
  /\ UNCHANGED <<impl, listdir, uncaught, folders, kept, contest, shadow_stations, NUM_MISTAKES, results, ubn, valid,
                 cur, ci, qi, runs, inp, out>>

\* the caller keeps the returned results (cw_results = loop_all(cw_path)) and
\* goes on: the aggregator's locals are gone, check.py's globals
\* shadow_stations and NUM_MISTAKES stay, the .ubn files stay on disk
caller_continues ==
  /\ pc = "done"
  /\ pc' = "idle" /\ ci' = 0 /\ qi' = 0
  /\ contest' = << >> /\ results' = << >> /\ ubn' = << >> /\ valid' = << >>
  /\ cur' = NoneVal
  /\ shadow_stations' = IF impl = "gui" THEN << >> ELSE shadow_stations
  /\ kept' = Append(kept, [contest |-> contest, results |-> results, ubn |-> ubn,
                           valid |-> valid, mistakes |-> NUM_MISTAKES])
  /\ UNCHANGED <<impl, listdir, uncaught, folders, NUM_MISTAKES, runs, inp, out>>

\* results_to_csv: the SCORE column printed for one participant
results_to_csv_score(participant) ==
  (participant.points_80m + participant.points_40m)
    * (Len(participant.mults_80m) + Len(participant.mults_40m))

\* ParticipantResult.points_80m / points_40m: sum of the positive grades of
\* the validations on the band, from position i
RECURSIVE gui_points(_, _, _)
gui_points(qso_validations, band, i) ==
  IF i > Len(qso_validations) THEN 0
  ELSE (IF qso_validations[i].points > 0 /\ qso_validations[i].qso.freq[1] = band
        THEN qso_validations[i].points ELSE 0)
       + gui_points(qso_validations, band, i + 1)

\* ParticipantResult.qso_count_80m / qso_count_40m: number of validations
\* with a positive grade on the band, from position i
RECURSIVE gui_qso_count(_, _, _)
gui_qso_count(qso_validations, band, i) ==
  IF i > Len(qso_validations) THEN 0
  ELSE (IF qso_validations[i].points > 0 /\ qso_validations[i].qso.freq[1] = band
        THEN 1 ELSE 0)
       + gui_qso_count(qso_validations, band, i + 1)

\* ParticipantResult.mults_80m / mults_40m: the multipliers of the band in
\* order of first appearance, seen being those of the positions before i
RECURSIVE gui_mults(_, _, _, _)
gui_mults(qso_validations, band, i, seen) ==
  IF i > Len(qso_validations) THEN seen
  ELSE LET v == qso_validations[i]
       IN gui_mults(qso_validations, band, i + 1,
                    IF v.multiplier # <<>> /\ v.qso.freq[1] = band
                       /\ ~InSeq(v.multiplier, seen)
                    THEN Append(seen, v.multiplier) ELSE seen)

\* ParticipantResult.total_score
total_score(result) ==
  (gui_points(result.qso_validations, "3", 1)
     + gui_points(result.qso_validations, "7", 1))
    * (Len(gui_mults(result.qso_validations, "3", 1, <<>>))
         + Len(gui_mults(result.qso_validations, "7", 1, <<>>)))

Next ==
  \/ read_logs
  \/ loop_all_shadow \/ loop_all_open \/ loop_all_judge \/ loop_all_close
  \/ loop_all_return
  \/ validate_all_build \/ validate_all_open \/ validate_all_judge
  \/ validate_all_close \/ validate_all_return
  \/ caller_continues

Spec == Init /\ [][Next]_vars

----------------------------------------------------------------------------
(* Notions of the specification, stated without the code's functions *)

\* positions of the contacts of `log` with counterpart `me` on the band of
\* leading digit `band`
Matching(log, me, band) ==
  {i \in 1..Len(log) : log[i].dx_call = me /\ log[i].freq[1] = band}
\* the k-th smallest position of S
Nth(S, k) == CHOOSE i \in S : Cardinality({j \in S : j <= i}) = k
WithinTolerance(a, b) == a.date - b.date <= 5 /\ b.date - a.date <= 5
\* number of contacts of the contest with counterpart x in mode mo
Claimants(cont, x, mo) ==
  UNION {{<<c, i>> : i \in {j \in 1..Len(cont[c]) :
                              cont[c][j].dx_call = x /\ cont[c][j].mo = mo}} :
           c \in DOMAIN cont}
FreqLegal(mo, f) ==
  IF mo = "CW"
  THEN f \in (3510..3560) \cup {3500} \cup (7010..7060) \cup {7000}
  ELSE f \in (3600..3650) \cup (3700..3775) \cup {3500}
             \cup (7050..7100) \cup (7130..7200) \cup {7000}
\* the 2-hour window of the mode: PH from 06:30, CW from 09:00
InOwnWindow(mo, date) ==
  IF mo = "PH" THEN 390 <= date /\ date < 510 ELSE 540 <= date /\ date < 660
\* all Exchange Grader checks pass for `my` against the contact `other`
AllChecksPass(my, other) ==
  /\ Len(my.de_exch) = 3 /\ Len(my.dx_exch) = 3 /\ Len(other.de_exch) >= 3
  /\ my.dx_exch[1] = other.de_exch[1]
  /\ IsNumeric(my.dx_exch[2]) /\ IsNumeric(other.de_exch[2])
  /\ IntOf(my.dx_exch[2]) = IntOf(other.de_exch[2])
  /\ my.dx_exch[3] = other.de_exch[3]

Judged == out # NoneVal /\ out.fn \in {"match_nrau", "validate_qso_gui"}
Graded == Judged /\ out.res.exc = "none"
CounterpartLogged == inp.my.dx_call \in DOMAIN inp.cont
OtherLog == inp.cont[inp.my.dx_call]
MatchingInOther == Matching(OtherLog, inp.my.de_call, inp.my.freq[1])
InTolerance == {i \in MatchingInOther : WithinTolerance(inp.my, OtherLog[i])}
FirstInTolerance == CHOOSE i \in InTolerance : \A j \in InTolerance : i <= j

ShadowCount == Cardinality(Claimants(inp.cont, inp.my.dx_call, inp.my.mo))
\* the counterpart's country resolves and has a valid-area set in the table
AreaSetKnown ==
  /\ inp.my.dx_call \notin CountryFails
  /\ get_country_name(inp.my.dx_call) \in DOMAIN counties
  /\ Len(inp.my.dx_exch) >= 3

----------------------------------------------------------------------------
(* Claims about the orchestrator, checked under SpecNrau *)

\* C1: for a counterpart that is not a key of the Contest the grade follows
\* the number of contacts claiming that counterpart in the claimant's mode:
\* 9 or fewer give grade 0; 10 or more give grade 1 when the claimed area is
\* in the valid-area set of the counterpart's country and grade 0 when it is
\* not (the counterpart's country having a valid-area set).
C1_ShadowThreshold ==
  (Judged /\ ~CounterpartLogged) =>
     /\ ShadowCount <= 9 => (out.res.exc = "none" /\ out.res.ret = 0)
     /\ (ShadowCount >= 10 /\ AreaSetKnown) =>
           /\ out.res.exc = "none"
           /\ out.res.ret = IF inp.my.dx_exch[3]
                                  \in counties[get_country_name(inp.my.dx_call)]
                            THEN 1 ELSE 0
C1_Witness ==
  /\ Judged /\ out.fn = "match_nrau" /\ ~CounterpartLogged
  /\ ShadowCount = 10 /\ out.res.ret = 1

\* C2: when every matching contact of the counterpart's log is more than 5
\* minutes away from the claimed contact, the final grade is 0, whatever the
\* number of duplicate occurrences; a counterpart contact outside the
\* tolerance is never the basis of a positive grade.
C2_TimeMismatchGradesZero ==
  (Graded /\ CounterpartLogged) =>
     /\ InTolerance = {} => out.res.ret = 0
     /\ (out.fn = "validate_qso_gui" /\ out.res.ret > 0)
           => WithinTolerance(inp.my, out.res.matched)

\* C3: a contact whose frequency is outside the legal ranges of its mode is
\* graded 0 on every path, the shadow-station path included.
C3_IllegalFrequencyGradesZero ==
  (Graded /\ ~FreqLegal(inp.my.mo, IntOf(inp.my.freq))) => out.res.ret = 0

\* C4: a contact timestamped outside the 2-hour window of its own mode is
\* graded 0.
C4_OwnWindowOnly ==
  (Graded /\ ~InOwnWindow(inp.my.mo, inp.my.date)) => out.res.ret = 0

\* C5: with the counterpart's log submitted, a legal frequency and a
\* timestamp inside the contest window, if some matching contact is within 5
\* minutes the final grade is the Exchange Grader's grade on the first such
\* occurrence in submission order; when the three received fields agree with
\* that occurrence (both own exchanges having 3 fields) the grade is 2.
C5_FirstOccurrenceInTolerance ==
  (Judged /\ CounterpartLogged /\ FreqLegal(inp.my.mo, IntOf(inp.my.freq))
     /\ InOwnWindow(inp.my.mo, inp.my.date) /\ InTolerance # {}) =>
     LET first == OtherLog[FirstInTolerance]
         grader == IF out.fn = "match_nrau" THEN match_exch(inp.my, first)
                   ELSE validate_exchange(inp.my, first)
     IN /\ out.res.exc = grader.exc
        /\ out.res.exc = "none" => out.res.ret = grader.ret
        /\ AllChecksPass(inp.my, first) => (out.res.exc = "none" /\ out.res.ret = 2)
C5_Witness ==
  /\ Judged /\ out.fn = "match_nrau" /\ CounterpartLogged
  /\ FreqLegal(inp.my.mo, IntOf(inp.my.freq)) /\ InOwnWindow(inp.my.mo, inp.my.date)
  /\ InTolerance # {} /\ FirstInTolerance = 2 /\ 1 \in MatchingInOther
  /\ AllChecksPass(inp.my, OtherLog[2]) /\ ~AllChecksPass(inp.my, OtherLog[1])
  /\ out.res.ret = 2

\* C6: a produced grade is 0, 1 or 2, and grade 2 implies that a counterpart
\* contact was located against which all Exchange Grader checks pass.
C6_GradeRange ==
  Graded =>
     /\ out.res.ret \in {0, 1, 2}
     /\ out.res.ret = 2 =>
           /\ CounterpartLogged
           /\ \E i \in MatchingInOther : AllChecksPass(inp.my, OtherLog[i])
C6_Witness == Graded /\ out.fn = "match_nrau" /\ out.res.ret = 2

----------------------------------------------------------------------------
(* Claims about the Exchange Grader (SpecExch) and the QSO Locator (SpecFind) *)

\* the grade by the documented precedence
ExchExpected(my, other) ==
  IF Len(my.de_exch) # 3 THEN 0
  ELSE IF Len(my.dx_exch) # 3 THEN 0
  ELSE IF my.dx_exch[1] # other.de_exch[1] THEN 1
  ELSE IF IntOf(my.dx_exch[2]) # IntOf(other.de_exch[2]) THEN 1
  ELSE IF my.dx_exch[3] # other.de_exch[3] THEN 1
  ELSE 2
\* the fields read up to the deciding check exist, the serials compared are
\* integers
ExchDecided(my, other) ==
  \/ Len(my.de_exch) # 3
  \/ Len(my.dx_exch) # 3
  \/ /\ Len(other.de_exch) >= 1
     /\ \/ my.dx_exch[1] # other.de_exch[1]
        \/ /\ Len(other.de_exch) >= 2
           /\ IsNumeric(my.dx_exch[2]) /\ IsNumeric(other.de_exch[2])
           /\ \/ IntOf(my.dx_exch[2]) # IntOf(other.de_exch[2])
              \/ Len(other.de_exch) >= 3

\* C7: the Exchange Grader applies its checks in fixed precedence and returns
\* at the first failure: sent exchange not 3 fields -> 0; received exchange
\* not 3 fields -> 0; report differs -> 1; serial differs as integer -> 1;
\* area differs as string -> 1; otherwise 2.
C7_GraderPrecedence ==
  (out # NoneVal /\ out.fn \in {"match_exch", "validate_exchange"}
     /\ ExchDecided(inp.my, inp.other)) =>
     /\ out.res.exc = "none"
     /\ out.res.ret = ExchExpected(inp.my, inp.other)
C7_Witness ==
  /\ out # NoneVal /\ out.fn = "match_exch"
  /\ Len(inp.my.de_exch) = 3 /\ Len(inp.my.dx_exch) = 3 /\ Len(inp.other.de_exch) = 3
  /\ inp.my.dx_exch[2] = N014 /\ inp.other.de_exch[2] = N14
  /\ out.res.ret = 2

\* C8: find_qso returns the occurrence-th contact, in submission order, whose
\* counterpart and band match; not-found when the owner is not in the
\* Contest or fewer than occurrence contacts match.
C8_Locator ==
  (out # NoneVal /\ out.fn = "find_qso") =>
     IF inp.call \notin DOMAIN inp.cont THEN ~Truthy(out.res)
     ELSE LET log == inp.cont[inp.call]
              M == Matching(log, inp.dx, inp.band)
          IN IF inp.occurence >= 1 /\ inp.occurence <= Cardinality(M)
             THEN out.res = log[Nth(M, inp.occurence)]
             ELSE ~Truthy(out.res)
C8_Witness ==
  /\ out # NoneVal /\ out.fn = "find_qso" /\ inp.call \in DOMAIN inp.cont
  /\ Matching(inp.cont[inp.call], inp.dx, inp.band) = {1, 3}
  /\ inp.occurence = 2 /\ out.res = inp.cont[inp.call][3]

----------------------------------------------------------------------------
(* Claims about the Score Aggregator, checked under Spec *)

\* positions, in the counterpart's log, of the contacts matching `my` that
\* are within the time tolerance
TolerableFor(cont, my) ==
  {i \in Matching(cont[my.dx_call], my.de_call, my.freq[1]) :
     WithinTolerance(my, cont[my.dx_call][i])}
\* the counterpart contact that produces the grade of `my`: the first
\* matching occurrence within the tolerance
ProducerOf(cont, my) ==
  cont[my.dx_call][CHOOSE i \in TolerableFor(cont, my) :
                      \A j \in TolerableFor(cont, my) : i <= j]

\* the lines of a participant's .ubn file that were ended: one per judged
\* contact (the text left by an uncaught exception is not ended)
Lines(call) == SelectSeq(ubn[call], LAMBDA l : l.newline)

\* the per-contact outcomes recorded so far for a participant: grade and
\* credited area (<<>> when none) of the contact at each position
Outcomes(call) ==
  IF impl = "check"
  THEN IF call \in DOMAIN ubn
       THEN [i \in 1..Len(Lines(call)) |->
               [points |-> Lines(call)[i].points,
                credited |-> IF Lines(call)[i].mult = <<>> THEN <<>>
                             ELSE Lines(call)[i].mult[1]]]
       ELSE <<>>
  ELSE LET done == IF call \in DOMAIN results THEN results[call].qso_validations
                   ELSE IF cur # NoneVal /\ cur.result.callsign = call
                        THEN cur.result.qso_validations ELSE <<>>
       IN [i \in 1..Len(done) |->
             [points |-> done[i].points, credited |-> done[i].multiplier]]

\* C9: the Shadow-Station Index is completely built before the first contact
\* of the Contest is judged, and the index consulted while judging is the
\* index built from the complete Contest.
C9_IndexIsTheContestsIndex ==
  pc = "judge" => shadow_stations = build_shadow_stations(contest).shadow

\* C10: a grade-1 contact whose grade was produced by a matched counterpart
\* contact credits its claimed area only if that counterpart contact
\* transmitted the same area.
C10_MultiplierNeedsAgreeingArea ==
  \A call \in DOMAIN contest : \A i \in 1..Len(Outcomes(call)) :
     LET my == contest[call][i]
         o == Outcomes(call)[i]
     IN (o.points = 1 /\ o.credited # <<>> /\ my.dx_call \in DOMAIN contest
           /\ TolerableFor(contest, my) # {})
          => ProducerOf(contest, my).de_exch[3] = my.dx_exch[3]

----------------------------------------------------------------------------
(* Claims about the recursion and the two forms of the orchestrator,
   checked under SpecNrau *)

\* number of matching contacts in the counterpart's log (0 without a log)
MatchingCount == IF CounterpartLogged THEN Cardinality(MatchingInOther) ELSE 0

\* C18: judging one contact terminates: every recursive call of the
\* orchestrator is made with a run strictly greater than its caller's and only
\* when the counterpart's log has a matching contact with that occurrence
\* index, so the number of recursive calls never exceeds the number of
\* matching contacts.
C18_RecursionBounded ==
  Judged =>
     LET c == out.res.calls IN
     /\ c[1] = 1
     /\ \A i \in 2..Len(c) : c[i] > c[i - 1] /\ c[i] <= MatchingCount
     /\ Len(c) - 1 <= MatchingCount
     /\ MatchingCount >= 1 => Len(c) <= MatchingCount
C18_Witness ==
  /\ Judged /\ out.fn = "match_nrau" /\ MatchingCount = 2 /\ InTolerance = {}
  /\ out.res.calls = <<1, 2>>

\* C20: on every input on which neither form raises, match_nrau and
\* validate_qso_gui return the same grade, also when the first matching
\* occurrence is outside the time tolerance and further occurrences exist.
C20_FormsAgree ==
  (Judged /\ out.fn = "match_nrau") =>
     LET g == validate_qso_gui(inp.cont, build_shadow_stations(inp.cont).shadow, inp.my,
                               inp.my.dx_call, 1)
     IN (out.res.exc = "none" /\ g.exc = "none") => out.res.ret = g.ret

----------------------------------------------------------------------------
(* Claims about multipliers, scores and failures, checked under Spec *)

\* the counterpart's country resolves and has a valid-area set holding area
AreaValidFor(dx_call, area) ==
  /\ dx_call \notin CountryFails
  /\ get_country_name(dx_call) \in DOMAIN counties
  /\ area \in counties[get_country_name(dx_call)]

\* C11: on a grade-1 contact the claimed area is credited as a multiplier only
\* if it is in the valid-area set of the counterpart's country; no multiplier
\* is credited when that country has no entry in the table or the lookup
\* fails.
C11_MultiplierNeedsValidArea ==
  \A call \in DOMAIN contest : \A i \in 1..Len(Outcomes(call)) :
     LET my == contest[call][i]
         o == Outcomes(call)[i]
     IN (o.points = 1 /\ o.credited # <<>>) => AreaValidFor(my.dx_call, my.dx_exch[3])

\* the per-band multiplier lists kept so far for a participant: <<80 m, 40 m>>
MultLists(call) ==
  IF impl = "check"
  THEN IF call \in DOMAIN results
       THEN <<results[call].mults_80m, results[call].mults_40m>> ELSE <<<<>>, <<>>>>
  ELSE IF cur # NoneVal /\ cur.result.callsign = call
       THEN <<cur.earned_mults_80m, cur.earned_mults_40m>> ELSE <<<<>>, <<>>>>
NoDuplicates(sq) == \A i, j \in 1..Len(sq) : i # j => sq[i] # sq[j]
\* positions of the contacts of a participant annotated with area on a band
CreditedAt(call, band, area) ==
  {i \in 1..Len(Outcomes(call)) :
     Outcomes(call)[i].credited = area /\ contest[call][i].freq[1] = band}

\* C12: at every point of the aggregation, for every participant and band,
\* the credited multiplier list holds no area twice; an area is annotated on
\* at most one contact per band, and a grade-2 contact on 80 m or 40 m whose
\* area is not annotated on it follows a contact of that band annotated with
\* that area.
C12_NoDuplicateMultipliers ==
  \A call \in DOMAIN contest :
     /\ NoDuplicates(MultLists(call)[1]) /\ NoDuplicates(MultLists(call)[2])
     /\ \A i \in 1..Len(Outcomes(call)) :
          LET my == contest[call][i]
              o == Outcomes(call)[i]
              at == CreditedAt(call, my.freq[1], my.dx_exch[3])
          IN /\ o.credited # <<>> => (o.credited = my.dx_exch[3] /\ at = {i})
             /\ (o.points = 2 /\ my.freq[1] \in {"3", "7"} /\ o.credited = <<>>)
                   => \E j \in at : j < i
C12_Witness ==
  /\ impl = "check" /\ "LY1A" \in DOMAIN contest /\ Len(Outcomes("LY1A")) = 2
  /\ contest["LY1A"][1].dx_exch[3] = contest["LY1A"][2].dx_exch[3]
  /\ contest["LY1A"][1].freq[1] = contest["LY1A"][2].freq[1]
  /\ Outcomes("LY1A")[1].credited = KA
  /\ Outcomes("LY1A")[2].points = 2 /\ Outcomes("LY1A")[2].credited = <<>>
  /\ results["LY1A"].mults_40m = <<KA>>

\* sum of the grades of the outcomes of a participant on a band, positions 1..n
RECURSIVE GradeSum(_, _, _)
GradeSum(call, band, n) ==
  IF n = 0 THEN 0
  ELSE (IF contest[call][n].freq[1] = band THEN Outcomes(call)[n].points ELSE 0)
       + GradeSum(call, band, n - 1)
\* the distinct areas credited to a participant on a band
CreditedAreas(call, band) ==
  {Outcomes(call)[i].credited :
     i \in {j \in 1..Len(Outcomes(call)) :
              Outcomes(call)[j].credited # <<>> /\ contest[call][j].freq[1] = band}}
\* the score recomputed from the per-contact outcomes
ScoreOfOutcomes(call) ==
  (GradeSum(call, "3", Len(Outcomes(call))) + GradeSum(call, "7", Len(Outcomes(call))))
    * (Cardinality(CreditedAreas(call, "3")) + Cardinality(CreditedAreas(call, "7")))
\* the score stored in a participant's result
StoredScore(call) ==
  IF impl = "check" THEN results[call].score ELSE total_score(results[call])

\* C13: for every participant result the stored score equals
\* (points_80 + points_40) x (|mults_80| + |mults_40|) recomputed from the
\* list of per-contact outcomes.
C13_StoredScore ==
  pc = "done" => \A call \in DOMAIN results : StoredScore(call) = ScoreOfOutcomes(call)

\* C14: the Score Aggregator run a second time in the same process on the
\* identical Contest returns the same participant results, per-contact grades
\* and annotations, and validity flags as the first run.
C14_Repeatable ==
  (pc = "done" /\ runs = 2 /\ folders[1] = folders[2]) =>
     /\ results = kept[1].results
     /\ ubn = kept[1].ubn
     /\ valid = kept[1].valid

\* the resolution of the counterpart's country or area set fails: the
\* resolver raises, or the country has no entry in the area table
LookupFails(dx_call) ==
  dx_call \in CountryFails \/ get_country_name(dx_call) \notin DOMAIN counties

\* C15: a failed country/area resolution never ends the run with the
\* resolution's exception, and a grade-1 contact whose counterpart's
\* resolution fails is credited no multiplier.
C15_LookupFailureNotFatal ==
  /\ ~(pc = "crashed" /\ uncaught = "KeyError" /\ LookupFails(CurQso.dx_call))
  /\ \A call \in DOMAIN contest : \A i \in 1..Len(Outcomes(call)) :
       (Outcomes(call)[i].points = 1 /\ LookupFails(contest[call][i].dx_call))
          => Outcomes(call)[i].credited = <<>>

\* C16: no defect of a single contact or log ends the run: neither a serial
\* number that is no numeral (ValueError) nor a located counterpart contact
\* with fewer than 3 transmitted fields nor a log without contacts
\* (IndexError).
C16_DefectsNotFatal ==
  ~(pc = "crashed" /\ uncaught \in {"ValueError", "IndexError"})

\* the mistake counter when the current aggregator call was entered
MistakesBefore == IF runs = 2 /\ Len(kept) >= 1 THEN kept[1].mistakes ELSE 0
\* the contacts judged so far by the current call, and those graded below 2
JudgedContacts ==
  UNION {{<<call, i>> : i \in 1..Len(Lines(call))} : call \in DOMAIN ubn}
GradedBelow2 == {k \in JudgedContacts : Lines(k[1])[k[2]].points < 2}

\* C17: while and after loop_all processes a Contest, the mistake counter
\* has increased by exactly the number of contacts graded below 2 so far, and
\* a contact is flagged invalid if and only if it was graded below 2;
\* grade-2 contacts and contacts not yet judged stay valid.
C17_MistakesCounted ==
  (impl = "check" /\ pc \in {"judge", "done", "crashed"}) =>
     /\ NUM_MISTAKES = MistakesBefore + Cardinality(GradedBelow2)
     /\ \A k \in DOMAIN valid : valid[k] = FALSE <=> k \in GradedBelow2
C17_Witness ==
  /\ impl = "check" /\ pc = "done" /\ runs = 2 /\ MistakesBefore > 0
  /\ \E k \in JudgedContacts : Lines(k[1])[k[2]].points = 2 /\ valid[k]
  /\ \E k \in JudgedContacts : Lines(k[1])[k[2]].points = 1 /\ ~valid[k]
  /\ \E k \in JudgedContacts : Lines(k[1])[k[2]].points = 0 /\ ~valid[k]
  /\ NUM_MISTAKES = MistakesBefore + Cardinality(GradedBelow2)

\* the claimant callsigns of the contacts with counterpart x in mode mo
ClaimantCalls(cont, x, mo) == {k[1] : k \in Claimants(cont, x, mo)}
\* how often the callsign c occurs in the list sq
Occurrences(sq, c) == Cardinality({i \in 1..Len(sq) : sq[i] = c})

\* C19: once the Shadow-Station Index of a Contest is built, a callsign has
\* an entry only if it is no key of the Contest; the count of a callsign and
\* mode is the number of contacts of the Contest with that counterpart and
\* mode; the claimant list has that many elements, one claimant callsign per
\* such contact; and every such contact with an absent counterpart is
\* counted.
C19_IndexContent ==
  pc \in {"judge", "done"} =>
     /\ \A x \in DOMAIN shadow_stations :
          /\ x \notin DOMAIN contest
          /\ \A mo \in DOMAIN shadow_stations[x] :
               "list" \in DOMAIN shadow_stations[x][mo] =>
                 LET e == shadow_stations[x][mo]
                     claiming == Claimants(contest, x, mo)
                 IN /\ (mo \o "_count") \in DOMAIN shadow_stations[x]
                    /\ "int" \in DOMAIN shadow_stations[x][mo \o "_count"]
                    /\ shadow_stations[x][mo \o "_count"].int = Cardinality(claiming)
                    /\ Len(e.list) = shadow_stations[x][mo \o "_count"].int
                    /\ \A c \in DOMAIN contest :
                         Occurrences(e.list, c)
                           = Cardinality({k \in claiming : k[1] = c})
     /\ \A c \in DOMAIN contest : \A i \in 1..Len(contest[c]) :
          contest[c][i].dx_call \notin DOMAIN contest
            => /\ contest[c][i].dx_call \in DOMAIN shadow_stations
               /\ contest[c][i].mo \in DOMAIN shadow_stations[contest[c][i].dx_call]

\* C21: every ended line of the per-contact record written by loop_all
\* carries exactly one grade annotation, and it is the grade returned for the
\* contact; no annotation written for one occurrence of the counterpart
\* contact is followed by another.
C21_OneGradePerLine ==
  impl = "check" =>
     \A call \in DOMAIN ubn : \A i \in 1..Len(Lines(call)) :
        /\ Len(Lines(call)[i].writes) = 1
        /\ Lines(call)[i].writes[1].grade = Lines(call)[i].points

\* the per-band tallies of a participant's result: points and contact counts
\* of 80 m and 40 m added up
TalliedPoints(call) ==
  IF impl = "check" THEN results[call].points_80m + results[call].points_40m
  ELSE gui_points(results[call].qso_validations, "3", 1)
         + gui_points(results[call].qso_validations, "7", 1)
TalliedCount(call) ==
  IF impl = "check" THEN results[call].qso_count_80m + results[call].qso_count_40m
  ELSE gui_qso_count(results[call].qso_validations, "3", 1)
         + gui_qso_count(results[call].qso_validations, "7", 1)
\* sum of the grades of the outcomes of a participant, positions 1..n
RECURSIVE GradeTotal(_, _)
GradeTotal(call, n) ==
  IF n = 0 THEN 0 ELSE Outcomes(call)[n].points + GradeTotal(call, n - 1)
PositiveGrades(call) ==
  {i \in 1..Len(Outcomes(call)) : Outcomes(call)[i].points > 0}

\* C22: for every participant result, the points of 80 m and 40 m add up to
\* the sum of the grades of the participant's contacts, and the contact
\* counts of 80 m and 40 m add up to the number of contacts graded above 0.
C22_TalliedOnOneBand ==
  \A call \in DOMAIN results :
     /\ TalliedPoints(call) = GradeTotal(call, Len(Outcomes(call)))
     /\ TalliedCount(call) = Cardinality(PositiveGrades(call))

====
